---- MODULE Spec2Model ----
(***************************************************************************)
(* kdtree-rs, src/display.rs: the Debug shape dump and the TikZ diagram of *)
(* a k-d tree.  fmt_recursively is modelled as an explicit call stack, one *)
(* step per write!/writeln! (each may be rejected by the sink), per call   *)
(* and per return.  Program counters are the source lines of display.rs.   *)
(* One write macro is one write on the sink; coordinates are integers.     *)
(***************************************************************************)
EXTENDS Integers, Sequences, FiniteSets, TLC

\* ---- bounds of the model ------------------------------------------------
MaxPoints == 2      \* points stored in one leaf: none, or MaxPoints
MaxInternal == 2    \* internal (split) nodes in one tree: 0..MaxInternal
MaxCoord == 1       \* coordinates range over -MaxCoord..MaxCoord

\* ---- Option<T> ----------------------------------------------------------
None == <<>>
Some(x) == <<x>>
IsSome(o) == Len(o) > 0
Unwrap(o) == o[1]

\* ---- the tree the renderer reads (struct KdTree, outside display.rs) ----
Dimensions == {1, 2}
SplitValues == {0, MaxCoord}

\* the k-th stored point of a leaf, with `dims` components
PointAt(k, dims) == [c \in 1..dims |-> ((k + c) % (2 * MaxCoord + 1)) - MaxCoord]

LeafNode(n, dims) ==
    [left |-> None, right |-> None, split_value |-> None,
     split_dimension |-> None,
     points |-> Some([k \in 1..n |-> PointAt(k, dims)])]

StemNode(l, r, v, d) ==
    [left |-> Some(l), right |-> Some(r), split_value |-> Some(v),
     split_dimension |-> Some(d), points |-> None]

RECURSIVE TreesWith(_, _)
TreesWith(n, dims) ==
    IF n = 0
    THEN {LeafNode(k, dims) : k \in {0, MaxPoints}}
    ELSE UNION {
           {StemNode(l, r, v, d) :
               l \in TreesWith(a, dims), r \in TreesWith(n - 1 - a, dims),
               v \in SplitValues, d \in 0..(dims - 1)}
           : a \in 0..(n - 1)}

Trees(dims) == UNION {TreesWith(n, dims) : n \in 0..MaxInternal}

\* min_bounds / max_bounds of the root, per axis
BoundsChoices(dims) ==
    IF dims = 2
    THEN {<< <<-MaxCoord, 0>>, <<0, MaxCoord + 1>> >>}
    ELSE {<< [c \in 1..dims |-> -MaxCoord], [c \in 1..dims |-> MaxCoord] >>}

\* KdTree::size(): the number of points stored in the subtree
RECURSIVE Size(_)
Size(node) ==
    IF IsSome(node.points)
    THEN Len(Unwrap(node.points))
    ELSE Size(Unwrap(node.left)) + Size(Unwrap(node.right))

VARIABLES
    tree,        \* the KdTree being rendered (never modified)
    dimensions,  \* tree.dimensions
    min_bounds,  \* tree.min_bounds
    max_bounds,  \* tree.max_bounds
    stack,       \* call stack, the running frame last
    out,         \* what the sink (the Formatter) has accepted, in order
    attempts,    \* number of writes attempted on the sink
    rejected,    \* number of writes the sink rejected
    visits,      \* the calls of fmt_recursively made so far: node and mode
    api,         \* the entry point the caller used
    result,      \* how the entry point ended
    run,         \* 0: a public entry point; 1, 2: first / second direct run
    first_run    \* output and visits of the first direct run

vars == <<tree, dimensions, min_bounds, max_bounds, stack, out, attempts,
          rejected, visits, api, result, run, first_run>>

treeVars == <<tree, dimensions, min_bounds, max_bounds>>

\* ---- FormatMode and Bounds ----------------------------------------------
NoBounds == [min_x |-> 0, max_x |-> 0, min_y |-> 0, max_y |-> 0]

Text(level) ==
    [kind |-> "Text", level |-> level, bounds |-> NoBounds,
     flip_node_position |-> FALSE]

TikZ(bounds, flip) ==
    [kind |-> "TikZ", level |-> 0, bounds |-> bounds,
     flip_node_position |-> flip]

\* ---- node addressing ----------------------------------------------------
RECURSIVE SubTree(_, _)
SubTree(node, path) ==
    IF path = <<>> THEN node
    ELSE SubTree(IF Head(path) = "left" THEN Unwrap(node.left)
                 ELSE Unwrap(node.right), Tail(path))

NodeAt(path) == SubTree(tree, path)

IsStem(node) == IsSome(node.left) /\ IsSome(node.right)

\* ---- what is written ----------------------------------------------------
\* one write!/writeln!: the format string, the indentation in units of four
\* spaces, the numbers and the strings interpolated, and whether the text
\* ends with a newline
Tok(text, ind, args, strs, nl) ==
    [text |-> text, ind |-> ind, args |-> args, strs |-> strs, nl |-> nl]

dimension_label(dim) ==
    CASE dim = 0 -> "x"
      [] dim = 1 -> "y"
      [] dim = 2 -> "z"
      [] dim = 3 -> "w"
      [] OTHER -> "x{dim}"

\* (first_pos_node, second_pos_node): which end of the split line is labelled
PosNodes(split_dimension, flip_node_position) ==
    CASE split_dimension = 0 /\ ~flip_node_position -> <<"", "anchor=south">>
      [] split_dimension = 0 /\ flip_node_position -> <<"anchor=north", "">>
      [] split_dimension = 1 /\ ~flip_node_position -> <<"", "anchor=west">>
      [] split_dimension = 1 /\ flip_node_position -> <<"anchor=east", "">>

\* (a slip: the line of an axis-0 split spans the x range, and vice versa)
SplitLineSpansOtherAxis(split_dimension, split_value, bounds, flip_node_position) ==
    LET pos == PosNodes(split_dimension, flip_node_position)
        ends == IF split_dimension = 0
                THEN <<split_value, bounds.min_x, split_value, bounds.max_x>>
                ELSE <<bounds.min_y, split_value, bounds.max_y, split_value>>
    IN  Tok("\\draw (_, _)_ -- (_, _)_;", 0, ends, pos, TRUE)

\* (a slip: the flag swaps the two ends of the line, not the labelled end)
SplitLineFlagSwapsEnds(split_dimension, split_value, bounds, flip_node_position) ==
    LET lo == IF split_dimension = 0 THEN bounds.min_y ELSE bounds.min_x
        hi == IF split_dimension = 0 THEN bounds.max_y ELSE bounds.max_x
        a == IF flip_node_position THEN hi ELSE lo
        b == IF flip_node_position THEN lo ELSE hi
        ends == IF split_dimension = 0
                THEN <<split_value, a, split_value, b>>
                ELSE <<a, split_value, b, split_value>>
    IN  Tok("\\draw (_, _)_ -- (_, _)_;", 0, ends,
            PosNodes(split_dimension, FALSE), TRUE)

\* the \draw of a split line: its two end points and the two label texts
SplitLine(split_dimension, split_value, bounds, flip_node_position) ==
    LET pos == PosNodes(split_dimension, flip_node_position)
        ends == IF split_dimension = 0
                THEN <<split_value, bounds.min_y, split_value, bounds.max_y>>
                ELSE <<bounds.min_x, split_value, bounds.max_x, split_value>>
    IN  Tok("\\draw (_, _)_ -- (_, _)_;", 0, ends, pos, TRUE)

\* (a slip: the left child has its min narrowed, like the right child)
LeftModeNarrowsMin(split_dimension, split_value, bounds, flip_node_position) ==
    IF split_dimension = 0
    THEN TikZ([bounds EXCEPT !.min_x = split_value], TRUE)
    ELSE TikZ([bounds EXCEPT !.min_y = split_value], TRUE)

\* (a slip: the left child is narrowed on the axis that was not split)
LeftModeNarrowsOtherAxis(split_dimension, split_value, bounds, flip_node_position) ==
    IF split_dimension = 0
    THEN TikZ([bounds EXCEPT !.max_y = split_value], TRUE)
    ELSE TikZ([bounds EXCEPT !.max_x = split_value], TRUE)

\* (a slip: the right child gets the negation of the node's own flag)
RightModeNegatesFlag(split_dimension, split_value, bounds, flip_node_position) ==
    IF split_dimension = 0
    THEN TikZ([bounds EXCEPT !.min_x = split_value], ~flip_node_position)
    ELSE TikZ([bounds EXCEPT !.min_y = split_value], ~flip_node_position)

\* left_mode and right_mode of an internal node
LeftMode(split_dimension, split_value, bounds, flip_node_position) ==
    IF split_dimension = 0
    THEN TikZ([bounds EXCEPT !.max_x = split_value], TRUE)
    ELSE TikZ([bounds EXCEPT !.max_y = split_value], TRUE)

RightMode(split_dimension, split_value, bounds, flip_node_position) ==
    IF split_dimension = 0
    THEN TikZ([bounds EXCEPT !.min_x = split_value], FALSE)
    ELSE TikZ([bounds EXCEPT !.min_y = split_value], FALSE)

\* ---- frames ------------------------------------------------------------
\* fn: the function running; path: the node it runs on; pc: the source line
\* it is at; i, j: the indices of the point and of the component being written
Frame(fn, path, mode, pc) ==
    [fn |-> fn, path |-> path, mode |-> mode, pc |-> pc, i |-> 0, j |-> 0]

Top == stack[Len(stack)]

Running == Len(stack) > 0

\* line 219: a subtree that is not the root call ends with an empty line
AfterMatch(mode) ==
    IF mode.kind = "Text" /\ mode.level >= 1 THEN "L220" ELSE "L223"

\* lines 30-35 and the match of line 43: where a call of fmt_recursively goes
EntryPc(node, mode) ==
    IF Size(node) = 0
    THEN IF mode.kind = "Text" THEN "L32" ELSE "L34"
    ELSE CASE IsStem(node) /\ mode.kind = "Text" -> "L46"
           [] ~IsStem(node) /\ mode.kind = "Text" -> "L63"
           [] IsStem(node) /\ mode.kind = "TikZ" ->
                (CASE Unwrap(node.split_dimension) = 0 -> "L151"
                   [] Unwrap(node.split_dimension) = 1 -> "L174"
                   [] OTHER -> "L146")
           [] ~IsStem(node) /\ mode.kind = "TikZ" -> "L206"

WritePcs == {"L32", "L46", "L47", "L54", "L57", "L59", "L63", "L64", "L66",
             "L70", "L72", "L74", "L76", "L77", "L151", "L174", "L206",
             "L208", "L215", "L220", "L263", "L291"}

CallPcs == {"L55", "L58", "L200", "L201", "L241", "L278"}

ReturnPcs == {"L34", "L223", "L297"}

\* the text the write at f.pc hands to the sink
WriteTok(f) ==
    LET node == NodeAt(f.path)
        level == f.mode.level
        b == f.mode.bounds
    IN  CASE f.pc = "L32" -> Tok("KdTree {}", 0, <<>>, <<>>, FALSE)
          [] f.pc = "L46" -> Tok("KdTree {", 0, <<>>, <<>>, TRUE)
          [] f.pc = "L47" ->
                Tok("split_value: _ on _", level + 1,
                    <<Unwrap(node.split_value)>>,
                    <<dimension_label(Unwrap(node.split_dimension))>>, TRUE)
          [] f.pc = "L54" -> Tok("left: ", level + 1, <<>>, <<>>, FALSE)
          [] f.pc = "L57" -> Tok("right: ", level + 1, <<>>, <<>>, FALSE)
          [] f.pc = "L59" -> Tok("}", level, <<>>, <<>>, FALSE)
          [] f.pc = "L63" -> Tok("KdTree {", 0, <<>>, <<>>, TRUE)
          [] f.pc = "L64" -> Tok("points: [", level + 1, <<>>, <<>>, TRUE)
          [] f.pc = "L66" -> Tok("(", level + 2, <<>>, <<>>, FALSE)
          [] f.pc = "L70" -> Tok(",\\t", 0, <<>>, <<>>, FALSE)
          [] f.pc = "L72" ->
                Tok("{component:+}", 0, <<Unwrap(node.points)[f.i][f.j]>>,
                    <<>>, FALSE)
          [] f.pc = "L74" -> Tok(")", 0, <<>>, <<>>, TRUE)
          [] f.pc = "L76" -> Tok("]", level + 1, <<>>, <<>>, TRUE)
          [] f.pc = "L77" -> Tok("}", level, <<>>, <<>>, FALSE)
          [] f.pc \in {"L151", "L174"} ->
                SplitLine(Unwrap(node.split_dimension),
                          Unwrap(node.split_value), b,
                          f.mode.flip_node_position)
          [] f.pc = "L206" -> Tok("\\draw[fill=black]", 0, <<>>, <<>>, FALSE)
          [] f.pc = "L208" ->
                Tok("\\n(x, y) circle[radius=0.05] node {(x, y)}", 1,
                    <<Unwrap(node.points)[f.i][1],
                      Unwrap(node.points)[f.i][2]>>, <<>>, FALSE)
          [] f.pc = "L215" -> Tok(";", 0, <<>>, <<>>, TRUE)
          [] f.pc = "L220" -> Tok("", 0, <<>>, <<>>, TRUE)
          [] f.pc = "L263" ->
                Tok("preamble", 0, <<b.min_x, b.max_x, b.min_y, b.max_y>>,
                    <<>>, TRUE)
          [] f.pc = "L291" -> Tok("postamble", 0, <<>>, <<>>, TRUE)

\* (a slip: the loops stop one point early)
TextMorePointsOffByOne(i, npoints) == i + 2 <= npoints

TikzMorePointsOffByOne(i, npoints) == i + 2 <= npoints

\* `for point in self.points...`, line 65: is there a point after the i-th
TextMorePoints(i, npoints) == i + 1 <= npoints

\* `for point in self.points...`, line 207: is there a point after the i-th
TikzMorePoints(i, npoints) == i + 1 <= npoints

\* the frame after the write at f.pc was accepted
AfterWrite(f) ==
    LET node == NodeAt(f.path)
        npoints == Len(Unwrap(node.points))
        ncomps == Len(Unwrap(node.points)[f.i])
    IN  CASE f.pc = "L32" -> [f EXCEPT !.pc = "L34"]
          [] f.pc = "L46" -> [f EXCEPT !.pc = "L47"]
          [] f.pc = "L47" -> [f EXCEPT !.pc = "L54"]
          [] f.pc = "L54" -> [f EXCEPT !.pc = "L55"]
          [] f.pc = "L57" -> [f EXCEPT !.pc = "L58"]
          [] f.pc = "L59" -> [f EXCEPT !.pc = AfterMatch(f.mode)]
          [] f.pc = "L63" -> [f EXCEPT !.pc = "L64"]
          [] f.pc = "L64" ->
                IF TextMorePoints(0, npoints) THEN [f EXCEPT !.pc = "L66", !.i = 1]
                ELSE [f EXCEPT !.pc = "L76"]
          [] f.pc = "L66" ->
                IF ncomps >= 1 THEN [f EXCEPT !.pc = "L72", !.j = 1]
                ELSE [f EXCEPT !.pc = "L74"]
          [] f.pc = "L70" -> [f EXCEPT !.pc = "L72"]
          [] f.pc = "L72" ->
                IF f.j + 1 <= ncomps
                THEN [f EXCEPT !.pc = "L70", !.j = f.j + 1]
                ELSE [f EXCEPT !.pc = "L74", !.j = 0]
          [] f.pc = "L74" ->
                IF TextMorePoints(f.i, npoints)
                THEN [f EXCEPT !.pc = "L66", !.i = f.i + 1]
                ELSE [f EXCEPT !.pc = "L76", !.i = 0]
          [] f.pc = "L76" -> [f EXCEPT !.pc = "L77"]
          [] f.pc = "L77" -> [f EXCEPT !.pc = AfterMatch(f.mode)]
          [] f.pc \in {"L151", "L174"} -> [f EXCEPT !.pc = "L200"]
          [] f.pc = "L206" ->
                IF TikzMorePoints(0, npoints) THEN [f EXCEPT !.pc = "L208", !.i = 1]
                ELSE [f EXCEPT !.pc = "L215"]
          [] f.pc = "L208" ->
                IF TikzMorePoints(f.i, npoints) THEN [f EXCEPT !.i = f.i + 1]
                ELSE [f EXCEPT !.pc = "L215", !.i = 0]
          [] f.pc = "L215" -> [f EXCEPT !.pc = AfterMatch(f.mode)]
          [] f.pc = "L220" -> [f EXCEPT !.pc = "L223"]
          [] f.pc = "L263" -> [f EXCEPT !.pc = "L278"]
          [] f.pc = "L291" -> [f EXCEPT !.pc = "L297"]

\* the callee of the call at f.pc: the node it runs on and its mode
CallTarget(f) ==
    LET node == NodeAt(f.path)
        dim == Unwrap(node.split_dimension)
        val == Unwrap(node.split_value)
        b == f.mode.bounds
        flip == f.mode.flip_node_position
    IN  CASE f.pc = "L55" ->
                [path |-> Append(f.path, "left"),
                 mode |-> Text(f.mode.level + 1)]
          [] f.pc = "L58" ->
                [path |-> Append(f.path, "right"),
                 mode |-> Text(f.mode.level + 1)]
          [] f.pc = "L200" ->
                [path |-> Append(f.path, "left"),
                 mode |-> LeftMode(dim, val, b, flip)]
          [] f.pc = "L201" ->
                [path |-> Append(f.path, "right"),
                 mode |-> RightMode(dim, val, b, flip)]
          [] f.pc = "L241" -> [path |-> <<>>, mode |-> Text(0)]
          [] f.pc = "L278" -> [path |-> <<>>, mode |-> TikZ(b, FALSE)]

\* the frame after the call at f.pc returned, when it goes on
AfterCallOk(f) ==
    CASE f.pc = "L55" -> [f EXCEPT !.pc = "L57"]
      [] f.pc = "L58" -> [f EXCEPT !.pc = "L59"]
      [] f.pc = "L200" -> [f EXCEPT !.pc = "L201"]
      [] f.pc = "L201" -> [f EXCEPT !.pc = AfterMatch(f.mode)]
      [] f.pc = "L278" -> [f EXCEPT !.pc = "L291"]

\* (a slip: the fmt::Result is dropped instead of propagated with `?`)
PropagatesNothing(r) == FALSE

\* (a slip: the dimension check is missing)
RefusesNoDimensions(dims) == FALSE

\* the `?` operator: an Err leaves the function at once, with that Err
Propagates(r) == r = "Err"

\* line 304: display_tikz refuses a tree that is not 2-dimensional
RefusesDimensions(dims) == dims # 2

\* let &[min_x, min_y] = min_bounds; let &[max_x, max_y] = max_bounds
RootBounds ==
    [min_x |-> min_bounds[1], max_x |-> max_bounds[1],
     min_y |-> min_bounds[2], max_y |-> max_bounds[2]]

\* ---- Init --------------------------------------------------------------
Init ==
    /\ dimensions \in Dimensions
    /\ tree \in Trees(dimensions)
    /\ \E b \in BoundsChoices(dimensions) :
          min_bounds = b[1] /\ max_bounds = b[2]
    /\ stack = <<>>
    /\ out = <<>>
    /\ attempts = 0
    /\ rejected = 0
    /\ visits = <<>>
    /\ api = "none"
    /\ result = "none"
    /\ run = 0
    /\ first_run = [out |-> <<>>, visits |-> <<>>]

\* ---- returning ---------------------------------------------------------
\* A callee has returned r to the frames st.  Debug::fmt (line 241) returns r
\* as it is; the other callers apply `?`: an Err is returned further, an Ok
\* lets the caller go on.  Gives the stack left and the entry point's result.
RECURSIVE ReturnTo(_, _)
ReturnTo(st, r) ==
    IF st = <<>>
    THEN [stack |-> <<>>, result |-> r]
    ELSE IF st[Len(st)].pc = "L241" \/ Propagates(r)
         THEN ReturnTo(SubSeq(st, 1, Len(st) - 1), r)
         ELSE [stack |-> [st EXCEPT ![Len(st)] = AfterCallOk(st[Len(st)])],
               result |-> "none"]

\* the running frame returns r
Pop(r) ==
    LET to == ReturnTo(SubSeq(stack, 1, Len(stack) - 1), r)
    IN  /\ stack' = to.stack
        /\ result' = to.result

\* ---- entry points ------------------------------------------------------
\* format!("{:?}", tree): Debug::fmt, lines 240-242
DebugFmt ==
    /\ api = "none" /\ ~Running
    /\ api' = "Debug::fmt"
    /\ stack' = <<Frame("Debug::fmt", <<>>, Text(0), "L241")>>
    /\ UNCHANGED <<treeVars, out, attempts, rejected, visits, result, run,
                   first_run>>

\* tree.display_tikz(), lines 303-312: panics, or hands out the wrapper
DisplayTikz ==
    /\ api = "none" /\ ~Running
    /\ api' = "display_tikz"
    /\ result' = IF RefusesDimensions(dimensions) THEN "Panic" ELSE result
    /\ UNCHANGED <<treeVars, stack, out, attempts, rejected, visits, run,
                   first_run>>

\* the wrapper is formatted: KdTreeDisplayTikz::fmt, lines 259-262; bounds
\* that are not pairs end in unreachable!()
DisplayTikzFmt ==
    /\ api = "display_tikz" /\ result = "none" /\ ~Running
    /\ api' = "KdTreeDisplayTikz::fmt"
    /\ IF Len(min_bounds) = 2 /\ Len(max_bounds) = 2
       THEN /\ stack' = <<Frame("KdTreeDisplayTikz::fmt", <<>>,
                                TikZ(RootBounds, FALSE), "L263")>>
            /\ UNCHANGED result
       ELSE /\ result' = "Panic"
            /\ UNCHANGED stack
    /\ UNCHANGED <<treeVars, out, attempts, rejected, visits, run, first_run>>

\* ---- steps of the running frame ----------------------------------------
\* a call of fmt_recursively, up to its first write, call or return: the size
\* check of lines 30-35 and the match of lines 43 and 99-149
Call ==
    /\ Running /\ Top.pc \in CallPcs
    /\ LET c == CallTarget(Top)
           pc == EntryPc(NodeAt(c.path), c.mode)
       IN  /\ visits' = Append(visits, c)
           /\ IF pc = "L146"
              THEN \* unreachable!(): the thread panics
                   /\ stack' = <<>>
                   /\ result' = "Panic"
              ELSE /\ stack' = Append(stack,
                                     Frame("fmt_recursively", c.path, c.mode, pc))
                   /\ UNCHANGED result
    /\ UNCHANGED <<treeVars, out, attempts, rejected, api, run, first_run>>

\* a write!/writeln! the sink accepts
Write ==
    /\ Running /\ Top.pc \in WritePcs
    /\ out' = Append(out, WriteTok(Top))
    /\ attempts' = attempts + 1
    /\ stack' = [stack EXCEPT ![Len(stack)] = AfterWrite(Top)]
    /\ UNCHANGED <<treeVars, rejected, visits, api, result, run, first_run>>

\* a write!/writeln! the sink rejects: `?` returns the Err, and so does every
\* caller (the postamble write of line 291 is the function's value as it is)
WriteRejected ==
    /\ Running /\ Top.pc \in WritePcs
    /\ attempts' = attempts + 1
    /\ rejected' = rejected + 1
    /\ IF Propagates("Err") \/ Top.pc = "L291"
       THEN Pop("Err")
       ELSE /\ stack' = [stack EXCEPT ![Len(stack)] = AfterWrite(Top)]
            /\ UNCHANGED result
    /\ UNCHANGED <<treeVars, out, visits, api, run, first_run>>

\* return Ok(()), lines 34 and 223, and the Ok of the postamble write, line
\* 296: the caller goes on after its call
Return ==
    /\ Running /\ Top.pc \in ReturnPcs
    /\ Pop("Ok")
    /\ UNCHANGED <<treeVars, out, attempts, rejected, visits, api, run,
                   first_run>>

\* ---- fmt_recursively called directly, once per starting flag ------------
\* fmt_recursively(f, TikZ { bounds, flip_node_position: false }), line 29
FirstRun ==
    /\ api = "none" /\ ~Running /\ run = 0
    /\ run' = 1
    /\ api' = "fmt_recursively"
    /\ stack' = <<Frame("fmt_recursively", <<>>, TikZ(RootBounds, FALSE),
                        EntryPc(tree, TikZ(RootBounds, FALSE)))>>
    /\ visits' = <<[path |-> <<>>, mode |-> TikZ(RootBounds, FALSE)]>>
    /\ UNCHANGED <<treeVars, out, attempts, rejected, result, first_run>>

\* the same call on the same tree and rectangle, with the flag true and a
\* fresh sink; the first run's output and calls are kept for comparison
SecondRun ==
    /\ run = 1 /\ ~Running /\ result = "Ok"
    /\ run' = 2
    /\ first_run' = [out |-> out, visits |-> visits]
    /\ out' = <<>>
    /\ result' = "none"
    /\ stack' = <<Frame("fmt_recursively", <<>>, TikZ(RootBounds, TRUE),
                        EntryPc(tree, TikZ(RootBounds, TRUE)))>>
    /\ visits' = <<[path |-> <<>>, mode |-> TikZ(RootBounds, TRUE)]>>
    /\ UNCHANGED <<treeVars, attempts, rejected, api>>

Next ==
    \/ DebugFmt
    \/ DisplayTikz
    \/ DisplayTikzFmt
    \/ Call
    \/ Write
    \/ WriteRejected
    \/ Return

Spec == Init /\ [][Next]_vars

\* two direct runs of the diagram recursion on a 2-dimensional tree, on a sink
\* that accepts every write
InitFlip == Init /\ dimensions = 2

NextFlip ==
    \/ FirstRun
    \/ SecondRun
    \/ Call
    \/ Write
    \/ Return

SpecFlip == InitFlip /\ [][NextFlip]_vars

\* ======================================================================
\* Properties
\* ======================================================================
Front(p) == SubSeq(p, 1, Len(p) - 1)

Last(p) == p[Len(p)]

RECURSIVE Paths(_)
Paths(node) ==
    IF IsStem(node)
    THEN {<<>>} \cup {<<"left">> \o p : p \in Paths(Unwrap(node.left))}
                \cup {<<"right">> \o p : p \in Paths(Unwrap(node.right))}
    ELSE {<<>>}

StemPaths == {p \in Paths(tree) : IsStem(NodeAt(p))}

LeafPaths == {p \in Paths(tree) : ~IsStem(NodeAt(p))}

NonEmptyStems == {p \in StemPaths : Size(NodeAt(p)) > 0}

NonEmptyLeaves == {p \in LeafPaths : Size(NodeAt(p)) > 0}

Count(seq, text) == Cardinality({k \in DOMAIN seq : seq[k].text = text})

SplitText == "\\draw (_, _)_ -- (_, _)_;"

MarkerText == "\\n(x, y) circle[radius=0.05] node {(x, y)}"

IsSplitLine(tok) == tok.text = SplitText

IsMarker(tok) == tok.text = MarkerText

ArgsOf(seq) == [k \in DOMAIN seq |-> seq[k].args]

\* a public entry point has returned Ok
DoneOk(entry) == run = 0 /\ api = entry /\ result = "Ok" /\ ~Running

\* the index in visits of the call on the parent of the k-th call's node
ParentIdx(k) ==
    CHOOSE j \in DOMAIN visits : visits[j].path = Front(visits[k].path)

TikzCalls == {k \in DOMAIN visits : visits[k].mode.kind = "TikZ"}

TikzChildCalls == {k \in TikzCalls : visits[k].path # <<>>}

\* ---- C1 ---------------------------------------------------------------
DiagramRefused == api \notin {"none", "Debug::fmt"} /\ dimensions # 2

StatedChildRect(b, d, s, side) ==
    CASE d = 0 /\ side = "left" ->
            [min_x |-> b.min_x, max_x |-> s, min_y |-> b.min_y, max_y |-> b.max_y]
      [] d = 0 /\ side = "right" ->
            [min_x |-> s, max_x |-> b.max_x, min_y |-> b.min_y, max_y |-> b.max_y]
      [] d = 1 /\ side = "left" ->
            [min_x |-> b.min_x, max_x |-> b.max_x, min_y |-> b.min_y, max_y |-> s]
      [] d = 1 /\ side = "right" ->
            [min_x |-> b.min_x, max_x |-> b.max_x, min_y |-> s, max_y |-> b.max_y]

Grid == (-MaxCoord - 1)..(MaxCoord + 2)

InRect(x, y, b) ==
    b.min_x <= x /\ x <= b.max_x /\ b.min_y <= y /\ y <= b.max_y

\* C2: in diagram mode each child is visited with its parent's rectangle, one
\* bound replaced by the split value (left: the max, right: the min, on the
\* split axis); the two child rectangles cover the parent's and meet only on
\* the line at the split value.
C2_ChildRectangles ==
    /\ \A k \in TikzChildCalls :
         LET pv == visits[ParentIdx(k)]
             node == NodeAt(pv.path)
         IN  visits[k].mode.bounds =
                StatedChildRect(pv.mode.bounds, Unwrap(node.split_dimension),
                                Unwrap(node.split_value), Last(visits[k].path))
    /\ \A r \in TikzChildCalls :
         Last(visits[r].path) = "right"
         => LET pv == visits[ParentIdx(r)]
                l == CHOOSE k \in TikzChildCalls :
                        visits[k].path = Append(pv.path, "left")
                node == NodeAt(pv.path)
                d == Unwrap(node.split_dimension)
                s == Unwrap(node.split_value)
                lb == visits[l].mode.bounds
                rb == visits[r].mode.bounds
            IN  \A x, y \in Grid :
                  /\ InRect(x, y, pv.mode.bounds)
                        => (InRect(x, y, lb) \/ InRect(x, y, rb))
                  /\ (InRect(x, y, lb) /\ InRect(x, y, rb))
                        => (IF d = 0 THEN x = s ELSE y = s)

C2_Witness ==
    /\ DoneOk("KdTreeDisplayTikz::fmt")
    /\ \E l, r \in TikzChildCalls :
         /\ visits[l].path = <<"left">>
         /\ visits[r].path = <<"left", "right">>
         /\ Unwrap(tree.split_dimension) = 0
         /\ Unwrap(NodeAt(<<"left">>).split_dimension) = 1
         /\ visits[r].mode.bounds # visits[l].mode.bounds

\* ---- C3 ---------------------------------------------------------------
\* the end points C3 states for the split line of a node visited with b
StatedSplitLine(node, b) ==
    LET s == Unwrap(node.split_value)
    IN  IF Unwrap(node.split_dimension) = 0
        THEN <<s, b.min_y, s, b.max_y>>
        ELSE <<b.min_x, s, b.max_x, s>>

\* the stated split lines of the calls vs made on internal nodes, in call
\* order; with `all` every internal node counts, else only those whose subtree
\* stores a point
RECURSIVE StatedSplitLines(_, _)
StatedSplitLines(vs, all) ==
    IF vs = <<>> THEN <<>>
    ELSE LET node == NodeAt(Head(vs).path)
         IN  (IF IsStem(node) /\ (all \/ Size(node) > 0)
              THEN <<StatedSplitLine(node, Head(vs).mode.bounds)>>
              ELSE <<>>) \o StatedSplitLines(Tail(vs), all)

\* C3 as stated: in the finished diagram every internal node of the tree has
\* exactly one split line, lying on the rectangle the node was visited with
\* (the global bounds at the root), and leaves have none.
C3_EveryInternalNodeDrawsItsLine ==
    DoneOk("KdTreeDisplayTikz::fmt") =>
        /\ Count(out, SplitText) = Cardinality(StemPaths)
        /\ ArgsOf(SelectSeq(out, IsSplitLine)) = StatedSplitLines(visits, TRUE)
        /\ visits[1].mode.bounds = RootBounds

\* C3, amended: in the finished diagram every internal node whose subtree
\* stores at least one point has exactly one split line, lying on the
\* rectangle the node was visited with (the global bounds at the root); an
\* internal node whose subtree stores no point, and a leaf, have none.
C3_NonEmptyInternalNodeDrawsItsLine ==
    DoneOk("KdTreeDisplayTikz::fmt") =>
        /\ Count(out, SplitText) = Cardinality(NonEmptyStems)
        /\ ArgsOf(SelectSeq(out, IsSplitLine)) = StatedSplitLines(visits, FALSE)
        /\ \A p \in NonEmptyStems : \E k \in TikzCalls : visits[k].path = p
        /\ visits[1].mode.bounds = RootBounds

C3_Witness ==
    /\ DoneOk("KdTreeDisplayTikz::fmt")
    /\ Count(out, SplitText) = 1
    /\ Cardinality(StemPaths) = 2
    /\ min_bounds[2] # min_bounds[1]

\* ---- C4 ---------------------------------------------------------------
\* C4 as stated: the finished shape dump has one `points:` section per leaf,
\* one `split_value:` line per internal node, and as many point lines as the
\* tree stores points.
C4_OneSectionPerNode ==
    DoneOk("Debug::fmt") =>
        /\ Count(out, "points: [") = Cardinality(LeafPaths)
        /\ Count(out, "split_value: _ on _") = Cardinality(StemPaths)
        /\ Count(out, "(") = Size(tree)

\* C4, amended: the finished shape dump has one `points:` section per leaf
\* that stores at least one point, one `split_value:` line per internal node
\* whose subtree stores at least one point, and as many point lines as the
\* tree stores points.
C4_OneSectionPerNonEmptyNode ==
    DoneOk("Debug::fmt") =>
        /\ Count(out, "points: [") = Cardinality(NonEmptyLeaves)
        /\ Count(out, "split_value: _ on _") = Cardinality(NonEmptyStems)
        /\ Count(out, "(") = Size(tree)
        /\ Count(out, ")") = Size(tree)

C4_Witness ==
    /\ DoneOk("Debug::fmt")
    /\ Cardinality(NonEmptyStems) = 2
    /\ Cardinality(NonEmptyLeaves) = 2
    /\ Cardinality(LeafPaths) = 3
    /\ Size(tree) = 2 * MaxPoints

\* ---- C5 ---------------------------------------------------------------
\* C5: in the shape dump a call at depth > 0 returns with its closing marker
\* followed by a newline (the last text written ends a line), and the root
\* call returns without a trailing newline.
C5_SubtreeEndsItsLine ==
    (Running /\ Top.fn = "fmt_recursively" /\ Top.mode.kind = "Text"
       /\ Top.pc \in ReturnPcs)
    => /\ out # <<>>
       /\ Top.mode.level >= 1 => Last(out).nl
       /\ Top.mode.level = 0 => ~Last(out).nl

\* ---- C6 ---------------------------------------------------------------
\* C6 as stated: in diagram mode the root is called with the flag false and
\* every right child is called with the negation of the flag its parent was
\* called with.
C6_RightChildNegatesParentFlag ==
    \A k \in TikzCalls :
        /\ visits[k].path = <<>> => ~visits[k].mode.flip_node_position
        /\ (visits[k].path # <<>> /\ Last(visits[k].path) = "right")
              => visits[k].mode.flip_node_position
                    = ~visits[ParentIdx(k)].mode.flip_node_position

\* C6, amended: in diagram mode the root is called with the flag false, every
\* right child with the flag false and every left child with the flag true,
\* whatever flag the parent was called with.
C6_FlagIsFixedPerSide ==
    \A k \in TikzCalls :
        visits[k].mode.flip_node_position
            = (visits[k].path # <<>> /\ Last(visits[k].path) = "left")

C6_Witness ==
    /\ DoneOk("KdTreeDisplayTikz::fmt")
    /\ \E k \in TikzCalls :
         /\ visits[k].path = <<"left", "right">>
         /\ visits[ParentIdx(k)].mode.flip_node_position
         /\ ~visits[k].mode.flip_node_position

\* ---- C7 ---------------------------------------------------------------
\* a write without its label texts; a call without its flag
Geometry(seq) ==
    [k \in DOMAIN seq |->
        [text |-> seq[k].text, ind |-> seq[k].ind, args |-> seq[k].args,
         nl |-> seq[k].nl]]

Rectangles(vs) ==
    [k \in DOMAIN vs |-> [path |-> vs[k].path, bounds |-> vs[k].mode.bounds]]

BothRunsDone == run = 2 /\ result = "Ok" /\ ~Running

\* C7: the diagram recursion run on the same tree and rectangle with the
\* starting flag false and with it true writes the same split-line end points
\* and the same point markers and passes the same rectangle to every node; the
\* outputs differ at most in the label texts of split lines.
C7_FlagDoesNotChangeGeometry ==
    BothRunsDone =>
        /\ Geometry(out) = Geometry(first_run.out)
        /\ Rectangles(visits) = Rectangles(first_run.visits)
        /\ \A k \in DOMAIN out :
             ~IsSplitLine(out[k]) => out[k] = first_run.out[k]

C7_Witness ==
    /\ BothRunsDone
    /\ out # first_run.out
    /\ Count(out, SplitText) = MaxInternal
    /\ Count(out, MarkerText) > MaxPoints

\* ---- C8 ---------------------------------------------------------------
\* C8: once the sink has rejected a write, no further write is attempted, no
\* further node is visited, what the sink accepted stays as it is, and the
\* render ends with the failure as its result.
C8_SinkFailureEndsTheRender ==
    /\ [][rejected' # rejected =>
            /\ out' = out /\ visits' = visits
            /\ result' = "Err" /\ stack' = <<>>]_vars
    /\ [][rejected >= 1 =>
            /\ attempts' = attempts /\ rejected' = rejected
            /\ out' = out /\ visits' = visits /\ result' = result]_vars
    /\ [](rejected >= 1 => (result = "Err" /\ ~Running))

C8_Witness ==
    /\ rejected = 1 /\ result = "Err" /\ ~Running
    /\ Len(visits) = 3
    /\ Len(out) > Len(visits)

\* ---- C9 ---------------------------------------------------------------
\* the (x, y) of the points of the leaves called in vs, in call order
RECURSIVE StoredXY(_)
StoredXY(vs) ==
    IF vs = <<>> THEN <<>>
    ELSE LET node == NodeAt(Head(vs).path)
         IN  (IF IsStem(node) THEN <<>>
              ELSE [k \in DOMAIN Unwrap(node.points) |->
                      <<Unwrap(node.points)[k][1], Unwrap(node.points)[k][2]>>])
             \o StoredXY(Tail(vs))

\* C9: the finished diagram has one circle marker per stored point, at the
\* point's (x, y), leaf by leaf; a leaf without points adds nothing to the
\* output; the markers number the points of the tree; a single-leaf tree has
\* no split line.
C9_OneMarkerPerPoint ==
    DoneOk("KdTreeDisplayTikz::fmt") =>
        /\ ArgsOf(SelectSeq(out, IsMarker)) = StoredXY(visits)
        /\ Count(out, MarkerText) = Size(tree)
        /\ Count(out, "\\draw[fill=black]") = Cardinality(NonEmptyLeaves)
        /\ Count(out, ";") = Cardinality(NonEmptyLeaves)
        /\ Len(out) = 2 + Count(out, SplitText) + Size(tree)
                        + 2 * Cardinality(NonEmptyLeaves)
        /\ ~IsStem(tree) => Count(out, SplitText) = 0

C9_Witness ==
    /\ DoneOk("KdTreeDisplayTikz::fmt")
    /\ Cardinality(LeafPaths) = 3
    /\ Cardinality(NonEmptyLeaves) = 2
    /\ Count(out, MarkerText) = 2 * MaxPoints

\* ---- C10 --------------------------------------------------------------
RectOk(b) == b.min_x <= b.max_x /\ b.min_y <= b.max_y

Contained(c, b) ==
    /\ b.min_x <= c.min_x /\ c.max_x <= b.max_x
    /\ b.min_y <= c.min_y /\ c.max_y <= b.max_y

\* the split value of the node of call v lies within v's rectangle
SplitWithinRect(v) ==
    LET node == NodeAt(v.path)
        b == v.mode.bounds
        s == Unwrap(node.split_value)
    IN  IsStem(node) =>
            IF Unwrap(node.split_dimension) = 0
            THEN b.min_x <= s /\ s <= b.max_x
            ELSE b.min_y <= s /\ s <= b.max_y

\* C10: when the global bounds are ordered and every internal node called so
\* far has its split value within its rectangle, every rectangle passed to a
\* call of the diagram recursion is ordered and lies within the rectangle of
\* the parent call.
C10_RectanglesNarrow ==
    (TikzCalls # {} /\ RectOk(RootBounds)
       /\ \A k \in TikzCalls : SplitWithinRect(visits[k]))
    => \A k \in TikzCalls :
          /\ RectOk(visits[k].mode.bounds)
          /\ visits[k].path # <<>>
                => Contained(visits[k].mode.bounds,
                             visits[ParentIdx(k)].mode.bounds)

C10_Witness ==
    /\ DoneOk("KdTreeDisplayTikz::fmt")
    /\ \A k \in TikzCalls : SplitWithinRect(visits[k])
    /\ \E k \in TikzCalls :
         /\ Len(visits[k].path) = MaxInternal
         /\ visits[k].mode.bounds.min_x > RootBounds.min_x
         /\ visits[k].mode.bounds.max_y < RootBounds.max_y

====
